---- MODULE Spec2Model ----
(***************************************************************************)
(* Limit-order matching engine (cpp-trading-engine): the order book with   *)
(* price-time priority, the matching engine that routes submissions        *)
(* through it, and the pre-trade risk gate.                                *)
(*                                                                         *)
(* Prices are doubles in the source; the callers pre-quantize them, so the *)
(* model uses integer ticks.  Timestamps are read from the steady clock    *)
(* and never compared by the code, so orders and fills carry none.         *)
(***************************************************************************)
EXTENDS Integers, Sequences, FiniteSets, TLC

\* ------------------------------------------------------------------ bounds
MaxPrice == 2       \* valid prices submitted are the ticks 0..MaxPrice
MaxQty == 2         \* valid quantities submitted are 1..MaxQty

\* --------------------------------------------------------------- constants
\* matching_engine.cpp:95: the limit a Market Buy is matched with.  It is 1e12
\* in the source; the model checker's integers are 32-bit, so the model takes
\* 1e9: like the source's, a finite price far above every price submitted.
MarketBuyLimit == 1000000000

Symbols == {"AAPL"}

\* the order ids a caller uses, and one submission for each
Ids == {1, 2, 3}
MaxOrders == Cardinality(Ids)

Sides == {"Buy", "Sell"}
OrderTypes == {"Limit", "Market", "IOC", "FOK"}

EmptyMap == [x \in {} |-> 0]

\* ------------------------------------------------------------------ Order
\* Order(id, symbol, side, type, price, quantity): filled_qty 0, status New
Order(id, symbol, side, type, price, quantity) ==
    [id |-> id, symbol |-> symbol, side |-> side, type |-> type,
     price |-> price, quantity |-> quantity, filled_qty |-> 0,
     status |-> "New"]

remaining_qty(o) == o.quantity - o.filled_qty

is_filled(o) == o.filled_qty >= o.quantity

is_active(o) == o.status \in {"New", "PartiallyFilled"}

apply_fill(o, fill_qty) ==
    LET f == o.filled_qty + fill_qty
    IN  [o EXCEPT !.filled_qty = f,
                  !.status = IF f >= o.quantity THEN "Filled"
                             ELSE IF f > 0 THEN "PartiallyFilled"
                             ELSE o.status]

\* mutant of reject: the order is marked Cancelled
rejectAsCancelled(o) == [o EXCEPT !.status = "Cancelled"]

cancel(o) == [o EXCEPT !.status = "Cancelled"]

reject(o) == [o EXCEPT !.status = "Rejected"]

\* mutant of Fill: the price and the quantity handed over in the wrong order
FillSwapped(order_id, counter_id, symbol, side, price, quantity) ==
    [order_id |-> order_id, counter_order_id |-> counter_id,
     symbol |-> symbol, side |-> side, price |-> quantity,
     quantity |-> price]

Fill(order_id, counter_id, symbol, side, price, quantity) ==
    [order_id |-> order_id, counter_order_id |-> counter_id,
     symbol |-> symbol, side |-> side, price |-> price,
     quantity |-> quantity]

\* -------------------------------------------------------------- PriceLevel
PriceLevel(p) == [price |-> p, total_quantity |-> 0, orders |-> << >>]

\* bid_levels_ / ask_levels_ are maps keyed by price; std::map::erase
MapErase(m, k) == [x \in (DOMAIN m) \ {k} |-> m[x]]

\* std::map::operator[] assignment
MapPut(m, k, v) == [x \in (DOMAIN m) \cup {k} |-> IF x = k THEN v ELSE m[x]]

\* begin() of bid_levels_ (std::greater: highest price first)
BidBegin(levels) ==
    CHOOSE p \in DOMAIN levels : \A q \in DOMAIN levels : q <= p

\* begin() of ask_levels_ (lowest price first)
AskBegin(levels) ==
    CHOOSE p \in DOMAIN levels : \A q \in DOMAIN levels : p <= q

\* mutant of ListErase: the head of the list is erased, whichever order the
\* locator points at
ListEraseHead(orders, id) ==
    IF orders = << >> THEN << >> ELSE Tail(orders)

\* std::list::erase(iter): the node of the order the locator points at
RECURSIVE ListErase(_, _)
ListErase(orders, id) ==
    IF orders = << >> THEN << >>
    ELSE IF Head(orders).id = id THEN Tail(orders)
    ELSE <<Head(orders)>> \o ListErase(Tail(orders), id)

\* *loc.iter: the order a locator's iterator points at
Deref(level, id) ==
    LET i == CHOOSE i \in 1..Len(level.orders) : level.orders[i].id = id
    IN  level.orders[i]

\* --------------------------------------------------------------- OrderBook
OrderBook(symbol) ==
    [symbol |-> symbol, bid_levels |-> EmptyMap, ask_levels |-> EmptyMap,
     order_lookup |-> EmptyMap, bid_orders |-> {}, ask_orders |-> {}]

\* mutant of isValidOrder: a price of 0 is refused
isValidOrderPositivePrice(order) ==
    remaining_qty(order) > 0 /\ order.price > 0

isValidOrder(order) == remaining_qty(order) > 0 /\ order.price >= 0

\* the level map of one side
Levels(book, side) ==
    IF side = "Buy" THEN book.bid_levels ELSE book.ask_levels

SetLevels(book, side, levels) ==
    IF side = "Buy" THEN [book EXCEPT !.bid_levels = levels]
    ELSE [book EXCEPT !.ask_levels = levels]

SideOrders(book, side) ==
    IF side = "Buy" THEN book.bid_orders ELSE book.ask_orders

SetSideOrders(book, side, ids) ==
    IF side = "Buy" THEN [book EXCEPT !.bid_orders = ids]
    ELSE [book EXCEPT !.ask_orders = ids]

\* mutant of addOrder: the order is put at the head of the level's list
addOrderAtHead(book, order) ==
    IF ~isValidOrder(order) THEN <<FALSE, book>>
    ELSE IF order.id \in DOMAIN book.order_lookup THEN <<FALSE, book>>
    ELSE
      LET levels == Levels(book, order.side)
          level == IF order.price \in DOMAIN levels THEN levels[order.price]
                   ELSE PriceLevel(order.price)
          level2 == [level EXCEPT
                       !.price = IF level.orders = << >> THEN order.price
                                 ELSE level.price,
                       !.orders = <<order>> \o level.orders,
                       !.total_quantity = level.total_quantity
                                          + remaining_qty(order)]
          b1 == SetLevels(book, order.side,
                          MapPut(levels, order.price, level2))
          b2 == [b1 EXCEPT !.order_lookup =
                   MapPut(book.order_lookup, order.id,
                          [side |-> order.side, price |-> order.price])]
          b3 == SetSideOrders(b2, order.side,
                              SideOrders(b2, order.side) \cup {order.id})
      IN  <<TRUE, b3>>

\* addOrder: <<returned bool, book after>>
addOrder(book, order) ==
    IF ~isValidOrder(order) THEN <<FALSE, book>>
    ELSE IF order.id \in DOMAIN book.order_lookup THEN <<FALSE, book>>
    ELSE
      LET levels == Levels(book, order.side)
          level == IF order.price \in DOMAIN levels THEN levels[order.price]
                   ELSE PriceLevel(order.price)
          level2 == [level EXCEPT
                       !.price = IF level.orders = << >> THEN order.price
                                 ELSE level.price,
                       !.orders = Append(level.orders, order),
                       !.total_quantity = level.total_quantity
                                          + remaining_qty(order)]
          b1 == SetLevels(book, order.side,
                          MapPut(levels, order.price, level2))
          b2 == [b1 EXCEPT !.order_lookup =
                   MapPut(book.order_lookup, order.id,
                          [side |-> order.side, price |-> order.price])]
          b3 == SetSideOrders(b2, order.side,
                              SideOrders(b2, order.side) \cup {order.id})
      IN  <<TRUE, b3>>

\* mutant of cancelOrder: the level total is reduced by the order's original
\* quantity instead of its remaining quantity
cancelOrderByQuantity(book, order_id) ==
    IF order_id \notin DOMAIN book.order_lookup THEN <<FALSE, book>>
    ELSE
      LET loc == book.order_lookup[order_id]
          levels == Levels(book, loc.side)
          level == levels[loc.price]
          level2 == [level EXCEPT
                       !.total_quantity = level.total_quantity
                          - Deref(level, order_id).quantity,
                       !.orders = ListErase(level.orders, order_id)]
          b1 == SetLevels(book, loc.side,
                          IF level2.orders = << >>
                          THEN MapErase(levels, loc.price)
                          ELSE MapPut(levels, loc.price, level2))
          b2 == SetSideOrders(b1, loc.side,
                              SideOrders(b1, loc.side) \ {order_id})
      IN  <<TRUE, [b2 EXCEPT !.order_lookup =
                     MapErase(book.order_lookup, order_id)]>>

\* cancelOrder: <<returned bool, book after>>
cancelOrder(book, order_id) ==
    IF order_id \notin DOMAIN book.order_lookup THEN <<FALSE, book>>
    ELSE
      LET loc == book.order_lookup[order_id]
          levels == Levels(book, loc.side)
          b1 == IF loc.price \in DOMAIN levels
                THEN LET level == levels[loc.price]
                         level2 == [level EXCEPT
                            !.total_quantity = level.total_quantity
                               - remaining_qty(Deref(level, order_id)),
                            !.orders = ListErase(level.orders, order_id)]
                     IN  SetLevels(book, loc.side,
                            IF level2.orders = << >>
                            THEN MapErase(levels, loc.price)
                            ELSE MapPut(levels, loc.price, level2))
                ELSE book
          b2 == SetSideOrders(b1, loc.side,
                              SideOrders(b1, loc.side) \ {order_id})
          b3 == [b2 EXCEPT !.order_lookup =
                   MapErase(book.order_lookup, order_id)]
      IN  <<TRUE, b3>>

\* mutant of ListSet: the order updated is moved to the back of the list
ListSetRequeue(orders, id, o) ==
    ListErase(orders, id) \o <<o>>

\* std::list node update through an iterator: the order with this id replaced
ListSet(orders, id, o) ==
    [i \in 1..Len(orders) |-> IF orders[i].id = id THEN o ELSE orders[i]]

\* modifyOrder: <<returned bool, book after>>
modifyOrder(book, order_id, new_price, new_quantity) ==
    IF order_id \notin DOMAIN book.order_lookup THEN <<FALSE, book>>
    ELSE
      LET loc == book.order_lookup[order_id]
          levels == Levels(book, loc.side)
          old_order == Deref(levels[loc.price], order_id)
      IN  IF new_price > 0 /\ new_price # loc.price
          THEN \* price changes: remove and re-add
               LET b1 == cancelOrder(book, order_id)[2]
                   o2 == [old_order EXCEPT
                            !.price = new_price,
                            !.quantity = IF new_quantity > 0
                                         THEN new_quantity ELSE @]
               IN  addOrder(b1, o2)
          ELSE IF new_quantity > 0 /\ new_quantity # old_order.quantity
          THEN \* price unchanged: the quantity is modified in place
               LET diff == new_quantity - old_order.quantity
                   level == levels[loc.price]
                   level2 == [level EXCEPT
                      !.orders = ListSet(level.orders, order_id,
                                   [old_order EXCEPT
                                      !.quantity = new_quantity]),
                      !.total_quantity = level.total_quantity + diff]
               IN  <<TRUE, SetLevels(book, loc.side,
                                     MapPut(levels, loc.price, level2))>>
          ELSE <<TRUE, book>>

\* getBestBid / getBestAsk: <<has_value, price, total_quantity>>
\* getBestBid reading the last level of bid_levels_ instead of the first
getBestBidLowest(book) ==
    IF DOMAIN book.bid_levels = {} THEN <<FALSE, 0, 0>>
    ELSE LET best == book.bid_levels[AskBegin(book.bid_levels)]
         IN  <<TRUE, best.price, best.total_quantity>>

\* getBestBid / getBestAsk: <<has a value, price, total_quantity>>
getBestBid(book) ==
    IF DOMAIN book.bid_levels = {} THEN <<FALSE, 0, 0>>
    ELSE LET best == book.bid_levels[BidBegin(book.bid_levels)]
         IN  <<TRUE, best.price, best.total_quantity>>

getBestAsk(book) ==
    IF DOMAIN book.ask_levels = {} THEN <<FALSE, 0, 0>>
    ELSE LET best == book.ask_levels[AskBegin(book.ask_levels)]
         IN  <<TRUE, best.price, best.total_quantity>>

\* getSpread: <<has a value, ask price - bid price>>
getSpread(book) ==
    LET bid == getBestBid(book)
        ask == getBestAsk(book)
    IN  IF ~bid[1] \/ ~ask[1] THEN <<FALSE, 0>>
        ELSE <<TRUE, ask[2] - bid[2]>>

\* getMidPrice: <<has a value, the mid price in halves of a price unit>>:
\* (bid + ask) / 2.0 is a double, kept here as the number of halves
getMidPrice(book) ==
    LET bid == getBestBid(book)
        ask == getBestAsk(book)
    IN  IF ~bid[1] \/ ~ask[1] THEN <<FALSE, 0>>
        ELSE <<TRUE, bid[2] + ask[2]>>

\* the loop of getBidLevels / getAskLevels: the levels of a map taken from
\* its begin() on, in the map's order, until `levels` of them are taken
RECURSIVE WalkLevels(_, _, _)
WalkLevels(map, side, levels) ==
    IF levels = 0 \/ DOMAIN map = {} THEN << >>
    ELSE LET p == IF side = "Buy" THEN BidBegin(map) ELSE AskBegin(map)
         IN  <<map[p]>> \o WalkLevels(MapErase(map, p), side, levels - 1)

\* getBidLevels walking the bids from the lowest price up
getBidLevelsFromWorst(book, levels) ==
    WalkLevels(book.bid_levels, "Sell", levels)

getBidLevels(book, levels) == WalkLevels(book.bid_levels, "Buy", levels)

getAskLevels(book, levels) == WalkLevels(book.ask_levels, "Sell", levels)

\* getOrder: <<found, order>>
getOrder(book, order_id) ==
    IF order_id \notin DOMAIN book.order_lookup THEN <<FALSE, 0>>
    ELSE LET loc == book.order_lookup[order_id]
         IN  <<TRUE, Deref(Levels(book, loc.side)[loc.price], order_id)>>

totalOrderCount(book) == Cardinality(DOMAIN book.order_lookup)

\* The side an aggressor is matched against
Opposite(side) == IF side = "Buy" THEN "Sell" ELSE "Buy"

\* mutant of FillQty: the passive order's remaining quantity, uncapped
FillQtyPassive(remaining, passive_order) == remaining_qty(passive_order)

\* FillQty taking one unit per pass of the loop
FillQtyOneLot(remaining, passive_order) == 1

\* std::min(remaining, passive_order.remaining_qty())
FillQty(remaining, passive_order) ==
    IF remaining < remaining_qty(passive_order)
    THEN remaining ELSE remaining_qty(passive_order)

\* executeFill, one pass of the inner loop (order_book.cpp:218-243 and
\* 265-290).  st = [level, lookup, side_orders, remaining, fills]
MatchOne(st, symbol, aggressor_side, aggressor_id) ==
    LET passive_order == Head(st.level.orders)
        fill_qty == FillQty(st.remaining, passive_order)
        fill == Fill(aggressor_id, passive_order.id, symbol,
                     aggressor_side, st.level.price, fill_qty)
        passive2 == apply_fill(passive_order, fill_qty)
        gone == is_filled(passive2)
    IN  [level |->
           [st.level EXCEPT
              !.total_quantity = st.level.total_quantity - fill_qty,
              !.orders = IF gone THEN Tail(st.level.orders)
                         ELSE <<passive2>> \o Tail(st.level.orders)],
         lookup |-> IF gone THEN MapErase(st.lookup, passive2.id)
                    ELSE st.lookup,
         side_orders |-> IF gone
                         THEN st.side_orders \ {passive2.id}
                         ELSE st.side_orders,
         remaining |-> st.remaining - fill_qty,
         fills |-> Append(st.fills, fill)]

\* executeFill, the inner loop over one level (order_book.cpp:217-244 and
\* 264-291)
RECURSIVE MatchLevel(_, _, _, _)
MatchLevel(st, symbol, aggressor_side, aggressor_id) ==
    IF ~(st.remaining > 0 /\ st.level.orders # << >>) THEN st
    ELSE MatchLevel(MatchOne(st, symbol, aggressor_side, aggressor_id),
                    symbol, aggressor_side, aggressor_id)

\* mutant of BestOpposite: the two sides' orderings exchanged, so that the
\* worst level of the opposite side is taken first
BestOppositeWorst(book, aggressor_side) ==
    IF aggressor_side = "Buy" THEN BidBegin(book.ask_levels)
    ELSE AskBegin(book.bid_levels)

\* begin() of the side an aggressor is matched against
BestOpposite(book, aggressor_side) ==
    IF aggressor_side = "Buy" THEN AskBegin(book.ask_levels)
    ELSE BidBegin(book.bid_levels)

\* mutant of PriceLimitHit: the Buy comparison used for both sides
PriceLimitHitBuyOnly(aggressor_side, level_price, limit_price) ==
    limit_price > 0 /\ level_price > limit_price

\* the price check of executeFill (order_book.cpp:212 and 259)
PriceLimitHit(aggressor_side, level_price, limit_price) ==
    limit_price > 0 /\ (IF aggressor_side = "Buy"
                        THEN level_price > limit_price
                        ELSE level_price < limit_price)

\* mutant of AfterLevel: the ID index entries of the orders filled are kept
AfterLevelStaleIndex(book, opp, p, st) ==
    SetSideOrders(
        SetLevels(book, opp,
                  IF st.level.orders = << >>
                  THEN MapErase(Levels(book, opp), p)
                  ELSE MapPut(Levels(book, opp), p, st.level)),
        opp, st.side_orders)

\* executeFill, the end of one pass of the outer loop: the level the inner
\* loop left (st) is written back, and erased if it was emptied
AfterLevel(book, opp, p, st) ==
    SetSideOrders(
        [SetLevels(book, opp,
                   IF st.level.orders = << >>
                   THEN MapErase(Levels(book, opp), p)
                   ELSE MapPut(Levels(book, opp), p, st.level))
           EXCEPT !.order_lookup = st.lookup],
        opp, st.side_orders)

\* executeFill, the outer loop over the levels: <<fills, book after>>
RECURSIVE MatchBook(_, _, _, _, _, _)
MatchNext(book, aggressor_side, limit_price, aggressor_id, p, st) ==
    MatchBook(AfterLevel(book, Opposite(aggressor_side), p, st),
              aggressor_side, st.remaining, limit_price, aggressor_id,
              st.fills)

MatchBook(book, aggressor_side, remaining, limit_price, aggressor_id, fills) ==
    LET opp == Opposite(aggressor_side)
        levels == Levels(book, opp)
    IN  IF ~(remaining > 0 /\ DOMAIN levels # {}) THEN <<fills, book>>
        ELSE
          LET p == BestOpposite(book, aggressor_side)
              level == levels[p]
          IN  IF PriceLimitHit(aggressor_side, level.price, limit_price)
              THEN <<fills, book>>
              ELSE MatchNext(book, aggressor_side, limit_price, aggressor_id,
                      p,
                      MatchLevel(
                        [level |-> level, lookup |-> book.order_lookup,
                         side_orders |-> SideOrders(book, opp),
                         remaining |-> remaining, fills |-> fills],
                        book.symbol, aggressor_side, aggressor_id))

executeFill(book, aggressor_side, quantity, limit_price, aggressor_id) ==
    MatchBook(book, aggressor_side, quantity, limit_price, aggressor_id,
              << >>)

\* ------------------------------------------------------------- RiskManager
DEFAULT_POSITION_LIMIT == 100000
DEFAULT_ORDER_SIZE_LIMIT == 10000
DEFAULT_NOTIONAL_LIMIT == 10000000

\* risk_manager_ when no risk manager is installed (a null pointer)
NoRisk == [installed |-> FALSE]

\* "if (risk_manager_)"
HasRisk(rm) == "positions" \in DOMAIN rm

\* RiskManager(): no limits set, nothing accumulated, window starting now
RiskManager(now) ==
    [position_limits |-> EmptyMap, order_size_limits |-> EmptyMap,
     notional_limits |-> EmptyMap, positions |-> EmptyMap,
     notional_exposures |-> EmptyMap, global_position_limit |-> 0,
     global_notional_limit |-> 0, order_rate_limit |-> 0,
     orders_this_second |-> 0, rate_window_start |-> now]

\* find(symbol) with a default
MapGet(m, k, default) == IF k \in DOMAIN m THEN m[k] ELSE default

Abs(x) == IF x < 0 THEN -x ELSE x

Direction(side) == IF side = "Buy" THEN 1 ELSE -1

RECURSIVE SumOver(_, _, _)
\* the loop "for (sym, v) in m: total += f(sym, v)" with f = |new| for the
\* order's symbol and |v| for the others
SumOver(m, symbol, new) ==
    IF DOMAIN m = {} THEN 0
    ELSE LET k == CHOOSE k \in DOMAIN m : TRUE
         IN  (IF k = symbol THEN Abs(new) ELSE Abs(m[k]))
             + SumOver(MapErase(m, k), symbol, new)

getPositionLimit(rm, symbol) ==
    MapGet(rm.position_limits, symbol, DEFAULT_POSITION_LIMIT)

\* mutant of getOrderSizeLimit: the default of the position limit is taken
getOrderSizeLimitWrongDefault(rm, symbol) ==
    MapGet(rm.order_size_limits, symbol, DEFAULT_POSITION_LIMIT)

getOrderSizeLimit(rm, symbol) ==
    MapGet(rm.order_size_limits, symbol, DEFAULT_ORDER_SIZE_LIMIT)

getNotionalLimit(rm, symbol) ==
    MapGet(rm.notional_limits, symbol, DEFAULT_NOTIONAL_LIMIT)

getPosition(rm, symbol) == MapGet(rm.positions, symbol, 0)

getNotionalExposure(rm, symbol) == MapGet(rm.notional_exposures, symbol, 0)

\* the checks return "" (passed) or the reason of the failure
checkPositionLimit(rm, order) ==
    LET new_pos == getPosition(rm, order.symbol)
                   + Direction(order.side) * order.quantity
    IN  IF Abs(new_pos) > getPositionLimit(rm, order.symbol)
        THEN "Position limit exceeded"
        ELSE IF rm.global_position_limit > 0
                /\ SumOver(rm.positions, order.symbol, new_pos)
                     > rm.global_position_limit
        THEN "Global position limit exceeded"
        ELSE ""

checkOrderSizeLimit(rm, order) ==
    IF order.quantity > getOrderSizeLimit(rm, order.symbol)
    THEN "Order size limit exceeded" ELSE ""

checkNotionalLimit(rm, order) ==
    LET new_exposure == getNotionalExposure(rm, order.symbol)
           + Direction(order.side) * (order.price * order.quantity)
    IN  IF Abs(new_exposure) > getNotionalLimit(rm, order.symbol)
        THEN "Notional limit exceeded"
        ELSE IF rm.global_notional_limit > 0
                /\ SumOver(rm.notional_exposures, order.symbol, new_exposure)
                     > rm.global_notional_limit
        THEN "Global notional limit exceeded"
        ELSE ""

\* mutant of checkOrderRate: the window is never restarted
checkOrderRateNoReset(rm, now) ==
    IF rm.order_rate_limit = 0 THEN <<"", rm>>
    ELSE IF rm.orders_this_second >= rm.order_rate_limit
         THEN <<"Order rate limit exceeded", rm>>
         ELSE <<"", [rm EXCEPT !.orders_this_second = @ + 1]>>

\* checkOrderRate: <<reason, risk manager after>>; the clock counts seconds
checkOrderRate(rm, now) ==
    IF rm.order_rate_limit = 0 THEN <<"", rm>>
    ELSE
      LET rm1 == IF now - rm.rate_window_start >= 1
                 THEN [rm EXCEPT !.orders_this_second = 0,
                                 !.rate_window_start = now]
                 ELSE rm
      IN  IF rm1.orders_this_second >= rm1.order_rate_limit
          THEN <<"Order rate limit exceeded", rm1>>
          ELSE <<"", [rm1 EXCEPT !.orders_this_second = @ + 1]>>

\* mutant of checkOrder: the position check is made before the size check
checkOrderPositionFirst(rm, order, now) ==
    LET rate == checkOrderRate(rm, now)
        rm1 == rate[2]
    IN  IF rate[1] # "" THEN rate
        ELSE IF checkPositionLimit(rm1, order) # ""
        THEN <<checkPositionLimit(rm1, order), rm1>>
        ELSE IF checkOrderSizeLimit(rm1, order) # ""
        THEN <<checkOrderSizeLimit(rm1, order), rm1>>
        ELSE <<checkNotionalLimit(rm1, order), rm1>>

\* checkOrder booking the order's quantity as position when it passes
checkOrderReserving(rm, order, now) ==
    LET rate == checkOrderRate(rm, now)
        rm1 == rate[2]
    IN  IF rate[1] # "" THEN rate
        ELSE IF checkOrderSizeLimit(rm1, order) # ""
        THEN <<checkOrderSizeLimit(rm1, order), rm1>>
        ELSE IF checkPositionLimit(rm1, order) # ""
        THEN <<checkPositionLimit(rm1, order), rm1>>
        ELSE IF checkNotionalLimit(rm1, order) # ""
        THEN <<checkNotionalLimit(rm1, order), rm1>>
        ELSE <<"", [rm1 EXCEPT !.positions =
                      MapPut(rm1.positions, order.symbol,
                             getPosition(rm1, order.symbol)
                               + Direction(order.side) * order.quantity)]>>

\* checkOrder: <<reason ("" when passed), risk manager after>>
checkOrder(rm, order, now) ==
    LET rate == checkOrderRate(rm, now)
        rm1 == rate[2]
    IN  IF rate[1] # "" THEN rate
        ELSE IF checkOrderSizeLimit(rm1, order) # ""
        THEN <<checkOrderSizeLimit(rm1, order), rm1>>
        ELSE IF checkPositionLimit(rm1, order) # ""
        THEN <<checkPositionLimit(rm1, order), rm1>>
        ELSE <<checkNotionalLimit(rm1, order), rm1>>

\* updatePosition taking every fill as a buy
updatePositionUnsigned(rm, symbol, side, quantity, price) ==
    [rm EXCEPT
       !.positions = MapPut(rm.positions, symbol,
                        getPosition(rm, symbol) + quantity),
       !.notional_exposures = MapPut(rm.notional_exposures, symbol,
                        getNotionalExposure(rm, symbol) + price * quantity)]

updatePosition(rm, symbol, side, quantity, price) ==
    LET direction == Direction(side)
        notional == price * quantity
    IN  [rm EXCEPT
           !.positions = MapPut(rm.positions, symbol,
                            getPosition(rm, symbol) + direction * quantity),
           !.notional_exposures = MapPut(rm.notional_exposures, symbol,
                            IF direction > 0
                            THEN getNotionalExposure(rm, symbol) + notional
                            ELSE getNotionalExposure(rm, symbol) - notional)]

\* mutant of reset: the rate window is left as it is
resetKeepsWindow(rm, now) ==
    [rm EXCEPT !.positions = EmptyMap, !.notional_exposures = EmptyMap]

reset(rm, now) ==
    [rm EXCEPT !.positions = EmptyMap, !.notional_exposures = EmptyMap,
               !.orders_this_second = 0, !.rate_window_start = now]

setPositionLimit(rm, symbol, limit) ==
    [rm EXCEPT !.position_limits = MapPut(rm.position_limits, symbol, limit)]

setOrderSizeLimit(rm, symbol, limit) ==
    [rm EXCEPT !.order_size_limits =
                  MapPut(rm.order_size_limits, symbol, limit)]

setNotionalLimit(rm, symbol, limit) ==
    [rm EXCEPT !.notional_limits = MapPut(rm.notional_limits, symbol, limit)]

setOrderRateLimit(rm, orders_per_second) ==
    [rm EXCEPT !.order_rate_limit = orders_per_second]

setGlobalPositionLimit(rm, limit) ==
    [rm EXCEPT !.global_position_limit = limit]

setGlobalNotionalLimit(rm, limit) ==
    [rm EXCEPT !.global_notional_limit = limit]

\* the loop of submitOrder over the fills (matching_engine.cpp:28-31)
RECURSIVE updatePositions(_, _)
updatePositions(rm, fills) ==
    IF fills = << >> THEN rm
    ELSE updatePositions(
           updatePosition(rm, Head(fills).symbol, Head(fills).side,
                          Head(fills).quantity, Head(fills).price),
           Tail(fills))

\* ---------------------------------------------------------- MatchingEngine
VARIABLES
    order_books,     \* order_books_: symbol -> OrderBook
    risk_manager,    \* risk_manager_: NoRisk or the RiskManager's state
    total_orders,    \* total_orders_
    total_fills,     \* total_fills_
    now,             \* the steady clock, in seconds
    last             \* the caller's position: [op |-> "none"] between two
                     \* calls, else the call that has just run: its
                     \* arguments, what it returned and the notifications
                     \* it made

vars == <<order_books, risk_manager, total_orders, total_fills, now, last>>

\* the loop of matchOrder over the fills (matching_engine.cpp:104-108)
RECURSIVE applyFills(_, _)
applyFills(order, fills) ==
    IF fills = << >> THEN order
    ELSE applyFills(apply_fill(order, Head(fills).quantity), Tail(fills))

\* the limit price matchOrder hands to executeFill
LimitPriceOf(order) ==
    IF order.type = "Market"
    THEN (IF order.side = "Buy" THEN MarketBuyLimit ELSE 0)
    ELSE order.price

\* mutant of Residue: the remainder of a Limit order is cancelled like that of
\* the other types
ResidueCancelsAll(fills, order, book) ==
    IF remaining_qty(order) > 0
    THEN <<fills, cancel(order), book>>
    ELSE <<fills, order, book>>

\* mutant of Residue: the remainder of an IOC order is added to the book
ResidueRestsIOC(fills, order, book) ==
    IF remaining_qty(order) > 0
    THEN IF order.type \in {"Limit", "IOC"}
         THEN <<fills, order, addOrder(book, order)[2]>>
         ELSE <<fills, cancel(order), book>>
    ELSE <<fills, order, book>>

\* matchOrder, the residue (matching_engine.cpp:111-135): what becomes of
\* the order once its fills are applied: <<fills, order after, book after>>
Residue(fills, order, book) ==
    IF remaining_qty(order) > 0
    THEN IF order.type = "Limit"
         THEN <<fills, order, addOrder(book, order)[2]>>
         ELSE <<fills, cancel(order), book>>
    ELSE <<fills, order, book>>

\* matchOrder, after executeFill returned ex = <<fills, book>>
Matched(order, ex) == Residue(ex[1], applyFills(order, ex[1]), ex[2])

\* matchOrder: <<fills, order after, book after>>
matchOrder(book, order) ==
    Matched(order,
            IF remaining_qty(order) > 0
            THEN executeFill(book, order.side, remaining_qty(order),
                             LimitPriceOf(order), order.id)
            ELSE <<<< >>, book>>)

\* getOrCreateOrderBook creating a book for every symbol at once
getOrCreateOrderBookEager(books, symbol) ==
    [s \in DOMAIN books \cup {symbol, "AAPL", "MSFT"} |->
        IF s \in DOMAIN books THEN books[s] ELSE OrderBook(s)]

\* getOrCreateOrderBook emptying the books there are when it creates one
getOrCreateOrderBookFresh(books, symbol) ==
    IF symbol \in DOMAIN books THEN books
    ELSE [s \in DOMAIN books \cup {symbol} |-> OrderBook(s)]

\* getOrCreateOrderBook: the map of books with the symbol's book in it
getOrCreateOrderBook(books, symbol) ==
    IF symbol \in DOMAIN books THEN books
    ELSE MapPut(books, symbol, OrderBook(symbol))

\* the notifications of one submission, in the order they are made
FillEvents(fills) == [i \in 1..Len(fills) |-> <<"notifyFill", fills[i]>>]

\* the position updates of one submission, in the order they are made
PositionEvents(fills) ==
    [i \in 1..Len(fills) |-> <<"updatePosition", fills[i]>>]

\* submitOrder notifying the order before the fills
NotificationsOrderFirst(installed, fills, order) ==
    <<<<"notifyOrder", order>>>> \o FillEvents(fills)
      \o (IF installed THEN PositionEvents(fills) ELSE << >>)

\* what an accepted submitOrder does about its fills and its order, in the
\* order it does it: matchOrder notifies each fill, then the positions are
\* updated if a risk manager is installed, then the order is notified
Notifications(installed, fills, order) ==
    FillEvents(fills)
      \o (IF installed THEN PositionEvents(fills) ELSE << >>)
      \o <<<<"notifyOrder", order>>>>

\* total_fills_ counting a submission's fills as one
countFillsOnce(total, fills) == total + (IF fills = << >> THEN 0 ELSE 1)

\* total_fills_ after the loop of matchOrder over the fills
countFills(total, fills) == total + Len(fills)

Init ==
    /\ order_books = EmptyMap
    /\ risk_manager = NoRisk
    /\ total_orders = 0
    /\ total_fills = 0
    /\ now = 0
    /\ last = [op |-> "none"]

Idle == last.op = "none"

\* Ids are only ever compared for equality, so the caller is taken to use
\* them in ascending order: the n-th submission carries an id already used
\* or the next unused one.
IdInUse(id) == id <= total_orders + 1

\* submitOrder, the whole call
submitOrder(order) ==
    /\ Idle
    /\ total_orders' = total_orders + 1
    /\ \E chk \in {IF ~HasRisk(risk_manager) THEN <<"", risk_manager>>
                   ELSE checkOrder(risk_manager, order, now)} :
         IF chk[1] # ""
         THEN /\ risk_manager' = chk[2]
              /\ UNCHANGED <<order_books, total_fills>>
              /\ last' = [op |-> "submitOrder", order |-> order,
                          rejected |-> TRUE,
                          reason |-> chk[1], fills |-> << >>,
                          result |-> reject(order),
                          events |-> <<<<"notifyOrder", reject(order)>>>>]
         ELSE \E books \in {getOrCreateOrderBook(order_books, order.symbol)} :
              \E m \in {matchOrder(books[order.symbol], order)} :
                /\ order_books' = MapPut(books, order.symbol, m[3])
                /\ total_fills' = countFills(total_fills, m[1])
                /\ risk_manager' =
                     IF ~HasRisk(risk_manager) THEN risk_manager
                     ELSE updatePositions(chk[2], m[1])
                /\ last' = [op |-> "submitOrder", order |-> order,
                            rejected |-> FALSE,
                            reason |-> "", fills |-> m[1],
                            result |-> m[2],
                            events |->
                              Notifications(HasRisk(risk_manager), m[1],
                                            m[2])]
    /\ UNCHANGED now

\* a submitOrder call, as long as fewer than MaxOrders were made
SubmitOrder(order) ==
    /\ IdInUse(order.id)
    /\ total_orders < MaxOrders
    /\ submitOrder(order)

CancelOrder(symbol, order_id) ==
    /\ Idle
    /\ \E r \in {IF symbol \in DOMAIN order_books
                 THEN cancelOrder(order_books[symbol], order_id)
                 ELSE <<FALSE, 0>>} :
           /\ order_books' = IF symbol \in DOMAIN order_books
                             THEN MapPut(order_books, symbol, r[2])
                             ELSE order_books
           /\ last' = [op |-> "cancelOrder", symbol |-> symbol,
                       id |-> order_id, ok |-> r[1]]
    /\ UNCHANGED <<risk_manager, total_orders, total_fills, now>>

ModifyOrder(symbol, order_id, new_price, new_quantity) ==
    /\ Idle
    /\ \E r \in {IF symbol \in DOMAIN order_books
                 THEN modifyOrder(order_books[symbol], order_id, new_price,
                                  new_quantity)
                 ELSE <<FALSE, 0>>} :
           /\ order_books' = IF symbol \in DOMAIN order_books
                             THEN MapPut(order_books, symbol, r[2])
                             ELSE order_books
           /\ last' = [op |-> "modifyOrder", symbol |-> symbol,
                       id |-> order_id, new_price |-> new_price,
                       new_quantity |-> new_quantity, 
                       ok |-> r[1]]
    /\ UNCHANGED <<risk_manager, total_orders, total_fills, now>>

\* the call returns: the caller drops what it was handed
Return ==
    /\ ~Idle
    /\ last' = [op |-> "none"]
    /\ UNCHANGED <<order_books, risk_manager, total_orders, total_fills, now>>

\* The orders a caller constructs.  A Market order carries price 0
\* (order.hpp:20); the others a price that is a valid resting price.
ValidOrders ==
    {Order(id, symbol, side, type, price, quantity) :
        id \in Ids, symbol \in Symbols, side \in Sides,
        type \in OrderTypes \ {"Market"},
        price \in 0..MaxPrice, quantity \in 1..MaxQty}
    \cup
    {Order(id, symbol, side, "Market", 0, quantity) :
        id \in Ids, symbol \in Symbols, side \in Sides,
        quantity \in 1..MaxQty}

\* Orders isValidOrder refuses: a negative price, a quantity of 0 or less
InvalidOrders ==
    {Order(id, symbol, side, type, pq[1], pq[2]) :
        id \in Ids, symbol \in Symbols, side \in Sides,
        type \in {"Limit", "Market"},
        pq \in {<<-1, 1>>, <<1, 0>>, <<1, -1>>}}

\* Orders handed over with part of their quantity already counted as filled:
\* the fields of Order are public and submitOrder takes the Order as it is
PrefilledOrders ==
    {[Order(id, symbol, side, "IOC", price, MaxQty)
        EXCEPT !.filled_qty = 1, !.status = "PartiallyFilled"] :
        id \in Ids, symbol \in Symbols, side \in Sides,
        price \in 0..MaxPrice}

Orders == ValidOrders \cup InvalidOrders \cup PrefilledOrders

Next ==
    \/ \E order \in Orders : SubmitOrder(order)
    \/ \E symbol \in Symbols, id \in Ids : CancelOrder(symbol, id)
    \/ \E symbol \in Symbols, id \in Ids, new_price \in 0..MaxPrice,
          new_quantity \in 0..MaxQty :
            ModifyOrder(symbol, id, new_price, new_quantity)
    \/ Return

Spec == Init /\ [][Next]_vars

\* ------------------------------------------- the engine behind a risk gate
\* The risk managers installed with setRiskManager: one limit set, on the
\* symbol traded, tight enough to refuse orders the callers submit
RiskSetups ==
    {setOrderSizeLimit(RiskManager(0), "AAPL", 1),
     setPositionLimit(RiskManager(0), "AAPL", 1),
     setNotionalLimit(RiskManager(0), "AAPL", 1),
     setOrderRateLimit(RiskManager(0), 1)}

InitRisk ==
    /\ order_books = EmptyMap
    /\ risk_manager \in RiskSetups
    /\ total_orders = 0
    /\ total_fills = 0
    /\ now = 0
    /\ last = [op |-> "none"]

\* the seconds the steady clock shows
Clock == 0..1

\* A second passes.  The clock is read by checkOrderRate alone and only with
\* a rate limit set (risk_manager.cpp:198-204).
Tick ==
    /\ Idle
    /\ HasRisk(risk_manager)
    /\ risk_manager.order_rate_limit # 0
    /\ now + 1 \in Clock
    /\ now' = now + 1
    /\ UNCHANGED <<order_books, risk_manager, total_orders, total_fills, last>>

\* the orders submitted through the gate
RiskOrders == {o \in ValidOrders : o.type \in {"Limit", "Market"}}

NextRisk ==
    \/ \E order \in RiskOrders : SubmitOrder(order)
    \/ \E symbol \in Symbols, id \in Ids : CancelOrder(symbol, id)
    \/ \E symbol \in Symbols, id \in Ids, new_price \in 0..MaxPrice,
          new_quantity \in 0..MaxQty :
            ModifyOrder(symbol, id, new_price, new_quantity)
    \/ Return
    \/ Tick

SpecRisk == InitRisk /\ [][NextRisk]_vars

\* ------------------------------------------------- an OrderBook used alone
\* One OrderBook driven through its own interface, as tests/test_order_book.cpp
\* drives it; it is held in order_books under its symbol.
InitBook ==
    /\ order_books = MapPut(EmptyMap, "AAPL", OrderBook("AAPL"))
    /\ risk_manager = NoRisk
    /\ total_orders = 0
    /\ total_fills = 0
    /\ now = 0
    /\ last = [op |-> "none"]

BookIds == {1, 2}

\* quantities one above those the engine is given, so that an order can be
\* filled twice and still rest
BookMaxQty == MaxQty + 1

\* the orders handed to addOrder: valid ones, and ones with a negative price,
\* a quantity of 0, or nothing remaining of their quantity
BookOrders ==
    {Order(id, "AAPL", side, "Limit", price, quantity) :
        id \in BookIds, side \in Sides, price \in (-1)..MaxPrice,
        quantity \in 0..BookMaxQty}
    \cup
    {[Order(id, "AAPL", side, "Limit", 1, 1) EXCEPT !.filled_qty = 1] :
        id \in BookIds, side \in Sides}

BookAddOrder(order) ==
    /\ Idle
    /\ \E r \in {addOrder(order_books["AAPL"], order)} :
         /\ order_books' = [order_books EXCEPT !["AAPL"] = r[2]]
         /\ last' = [op |-> "addOrder", order |-> order, ok |-> r[1]]
    /\ UNCHANGED <<risk_manager, total_orders, total_fills, now>>

BookCancelOrder(order_id) ==
    /\ Idle
    /\ \E r \in {cancelOrder(order_books["AAPL"], order_id)} :
         /\ order_books' = [order_books EXCEPT !["AAPL"] = r[2]]
         /\ last' = [op |-> "cancelOrder", symbol |-> "AAPL",
                     id |-> order_id, ok |-> r[1]]
    /\ UNCHANGED <<risk_manager, total_orders, total_fills, now>>

BookModifyOrder(order_id, new_price, new_quantity) ==
    /\ Idle
    /\ \E r \in {modifyOrder(order_books["AAPL"], order_id, new_price,
                              new_quantity)} :
         /\ order_books' = [order_books EXCEPT !["AAPL"] = r[2]]
         /\ last' = [op |-> "modifyOrder", symbol |-> "AAPL",
                     id |-> order_id, new_price |-> new_price,
                     new_quantity |-> new_quantity, ok |-> r[1]]
    /\ UNCHANGED <<risk_manager, total_orders, total_fills, now>>

BookExecuteFill(aggressor_side, quantity, limit_price, aggressor_id) ==
    /\ Idle
    /\ \E r \in {executeFill(order_books["AAPL"], aggressor_side, quantity,
                              limit_price, aggressor_id)} :
         /\ order_books' = [order_books EXCEPT !["AAPL"] = r[2]]
         /\ last' = [op |-> "executeFill", side |-> aggressor_side,
                     quantity |-> quantity, limit_price |-> limit_price,
                     fills |-> r[1]]
    /\ UNCHANGED <<risk_manager, total_orders, total_fills, now>>

\* the depths asked of getBidLevels / getAskLevels: none, one level, and as
\* many as two orders can make
Depths == {0, 1, 2}

BookGetBidLevels(levels) ==
    /\ Idle
    /\ last' = [op |-> "getBidLevels", levels |-> levels,
                result |-> getBidLevels(order_books["AAPL"], levels)]
    /\ UNCHANGED <<order_books, risk_manager, total_orders, total_fills,
                   now>>

BookGetAskLevels(levels) ==
    /\ Idle
    /\ last' = [op |-> "getAskLevels", levels |-> levels,
                result |-> getAskLevels(order_books["AAPL"], levels)]
    /\ UNCHANGED <<order_books, risk_manager, total_orders, total_fills,
                   now>>

NextBook ==
    \/ \E order \in BookOrders : BookAddOrder(order)
    \/ \E id \in BookIds : BookCancelOrder(id)
    \/ \E id \in BookIds, new_price \in 0..MaxPrice,
          new_quantity \in 0..BookMaxQty :
            BookModifyOrder(id, new_price, new_quantity)
    \/ \E side \in Sides, quantity \in 1..BookMaxQty,
          limit_price \in 0..MaxPrice, id \in Ids \ BookIds :
            BookExecuteFill(side, quantity, limit_price, id)
    \/ \E levels \in Depths : BookGetBidLevels(levels)
    \/ \E levels \in Depths : BookGetAskLevels(levels)
    \/ Return

SpecBook == InitBook /\ [][NextBook]_vars

\* ----------------------------------------------- a RiskManager used alone
\* One RiskManager driven through its own interface.
RmSymbols == {"AAPL", "MSFT"}

\* the limits set before use: none (the defaults apply); tight per-symbol
\* limits; an order-size limit above the default position limit; a global
\* position limit; a global notional limit; an order-rate limit, alone and
\* with a tight order-size limit
RmSetups ==
    {RiskManager(0),
     setNotionalLimit(
        setPositionLimit(setOrderSizeLimit(RiskManager(0), "AAPL", 1),
                         "AAPL", 1),
        "AAPL", 1),
     setOrderSizeLimit(RiskManager(0), "AAPL", DEFAULT_POSITION_LIMIT + 1),
     setGlobalPositionLimit(RiskManager(0), 1),
     setGlobalNotionalLimit(RiskManager(0), 1),
     setOrderRateLimit(RiskManager(0), 2),
     setOrderRateLimit(setOrderSizeLimit(RiskManager(0), "AAPL", 1), 1)}

InitRm ==
    /\ order_books = EmptyMap
    /\ risk_manager \in RmSetups
    /\ total_orders = 0
    /\ total_fills = 0
    /\ now = 0
    /\ last = [op |-> "none"]

\* the orders checked: those the engine is given, on either symbol, and
\* orders around the default limits
CheckOrders ==
    {Order(1, symbol, side, "Limit", price, quantity) :
        symbol \in RmSymbols, side \in Sides, price \in 0..MaxPrice,
        quantity \in 1..MaxQty}
    \cup
    {Order(1, "AAPL", "Buy", "Limit", price, quantity) :
        price \in {1, 101, 1001},
        quantity \in {DEFAULT_ORDER_SIZE_LIMIT, DEFAULT_ORDER_SIZE_LIMIT + 1,
                      DEFAULT_POSITION_LIMIT, DEFAULT_POSITION_LIMIT + 1}}

RmCheckOrder(order) ==
    /\ Idle
    /\ \E chk \in {checkOrder(risk_manager, order, now)} :
         /\ risk_manager' = chk[2]
         /\ last' = [op |-> "checkOrder", order |-> order,
                     reason |-> chk[1]]
    /\ UNCHANGED <<order_books, total_orders, total_fills, now>>

\* updatePosition with the fills the engine reports; the positions built stay
\* within what MaxQty and MaxPrice allow one order, and MSFT is only bought
RmUpdatePosition(symbol, side, quantity, price) ==
    /\ Idle
    /\ symbol = "MSFT" => side = "Buy" /\ quantity = 1 /\ price = 1
    /\ \E rm \in {updatePosition(risk_manager, symbol, side, quantity,
                                  price)} :
         /\ Abs(getPosition(rm, symbol)) <= MaxQty
         /\ Abs(getNotionalExposure(rm, symbol)) <= MaxQty * MaxPrice
         /\ symbol = "MSFT" => getPosition(rm, symbol) <= 1
         /\ risk_manager' = rm
    /\ last' = [op |-> "updatePosition", symbol |-> symbol]
    /\ UNCHANGED <<order_books, total_orders, total_fills, now>>

RmReset ==
    /\ Idle
    /\ risk_manager' = reset(risk_manager, now)
    /\ last' = [op |-> "reset", before |-> risk_manager]
    /\ UNCHANGED <<order_books, total_orders, total_fills, now>>

NextRm ==
    \/ \E order \in CheckOrders : RmCheckOrder(order)
    \/ \E symbol \in RmSymbols, side \in Sides, quantity \in 1..MaxQty,
          price \in 0..MaxPrice :
            RmUpdatePosition(symbol, side, quantity, price)
    \/ RmReset
    \/ Tick
    \/ Return

SpecRm == InitRm /\ [][NextRm]_vars

\* ------------------------------------ the engine trading several symbols
\* The engine behind a risk manager, trading two symbols as
\* test_multiple_symbols does.  The risk manager is shared with its owner
\* (setRiskManager takes a shared_ptr): it comes with a fill on one symbol
\* already recorded, and refuses the larger orders on that symbol.
MultiSymbols == {"AAPL", "MSFT"}

MultiSetups ==
    {setOrderSizeLimit(updatePosition(RiskManager(0), "AAPL", "Buy", 1, 1),
                       "AAPL", 1)}

InitMulti ==
    /\ order_books = EmptyMap
    /\ risk_manager \in MultiSetups
    /\ total_orders = 0
    /\ total_fills = 0
    /\ now = 0
    /\ last = [op |-> "none"]

MultiIds == {1, 2}

\* the orders submitted: Limit and Market orders on either symbol
MultiOrders ==
    {Order(id, symbol, side, "Limit", price, quantity) :
        id \in MultiIds, symbol \in MultiSymbols, side \in Sides,
        price \in 1..MaxPrice, quantity \in 1..MaxQty}
    \cup
    {Order(id, symbol, side, "Market", 0, quantity) :
        id \in MultiIds, symbol \in MultiSymbols, side \in Sides,
        quantity \in 1..MaxQty}

NextMulti ==
    \/ \E order \in MultiOrders : SubmitOrder(order)
    \/ \E symbol \in MultiSymbols, id \in MultiIds :
          CancelOrder(symbol, id)
    \/ \E symbol \in MultiSymbols, id \in MultiIds,
          new_price \in 1..MaxPrice, new_quantity \in 1..MaxQty :
            ModifyOrder(symbol, id, new_price, new_quantity)
    \/ Return

SpecMulti == InitMulti /\ [][NextMulti]_vars

\* --------------------------------------- the engine under a position limit
\* The engine behind a risk manager with a position limit on the symbol
\* traded, followed over more calls than elsewhere, on fewer inputs: the
\* ids are used in ascending order, the orders are Limit orders at two
\* prices, and a modify changes the quantity of one of the first two orders.
DeepLimit == 2

DeepOrders == 5

DeepPrices == {1, 2}

DeepQtys == {1, 2, 4}

DeepIds == {1, 2}

\* the quantities a modify sets: below, between and at the largest of DeepQtys
DeepNewQtys == {1, 3, 4}

InitDeep ==
    /\ order_books = EmptyMap
    /\ risk_manager = setPositionLimit(RiskManager(0), "AAPL", DeepLimit)
    /\ total_orders = 0
    /\ total_fills = 0
    /\ now = 0
    /\ last = [op |-> "none"]

DeepSubmitOrder(side, price, quantity) ==
    /\ total_orders < DeepOrders
    /\ submitOrder(Order(total_orders + 1, "AAPL", side, "Limit", price,
                         quantity))

NextDeep ==
    \/ \E side \in Sides, price \in DeepPrices, quantity \in DeepQtys :
          DeepSubmitOrder(side, price, quantity)
    \/ \E id \in DeepIds : CancelOrder("AAPL", id)
    \/ \E id \in DeepIds, new_quantity \in DeepNewQtys :
          ModifyOrder("AAPL", id, 0, new_quantity)
    \/ Return

SpecDeep == InitDeep /\ [][NextDeep]_vars

\* ------------------------------------------------------------------ claims
Range(seq) == {seq[i] : i \in 1..Len(seq)}

\* the orders resting on one side of a book, and in a book
RestingOn(book, side) ==
    UNION {Range(Levels(book, side)[p].orders) :
             p \in DOMAIN Levels(book, side)}

Resting(book) == RestingOn(book, "Buy") \cup RestingOn(book, "Sell")

\* the places <<price, position in the FIFO>> of the orders of a level map
Slots(levels) ==
    UNION {{<<p, i>> : i \in 1..Len(levels[p].orders)} : p \in DOMAIN levels}

\* place r has priority over place s for an aggressor of this side
Ahead(aggressor_side, r, s) ==
    \/ IF aggressor_side = "Buy" THEN r[1] < s[1] ELSE r[1] > s[1]
    \/ r[1] = s[1] /\ r[2] < s[2]

RECURSIVE SumQty(_)
SumQty(fills) ==
    IF fills = << >> THEN 0 ELSE Head(fills).quantity + SumQty(Tail(fills))

\* a submission has just been matched (it passed the risk check)
Submitted == last.op = "submitOrder" /\ ~last.rejected

\* the step of an accepted submitOrder call
SubmitStep == Idle /\ last'.op = "submitOrder" /\ ~last'.rejected

\* the fills respect the priority of the opposite side of the book they
\* were matched against
PriorityHolds(book, aggressor_side, fills) ==
    LET levels == Levels(book, Opposite(aggressor_side))
        at(s) == levels[s[1]].orders[s[2]]
    IN  /\ \A k \in 1..Len(fills) :
             \E s \in Slots(levels) :
               /\ at(s).id = fills[k].counter_order_id
               /\ \A r \in Slots(levels) :
                    Ahead(aggressor_side, r, s) =>
                      \E j \in 1..(k - 1) :
                        /\ fills[j].counter_order_id = at(r).id
                        /\ fills[j].quantity = remaining_qty(at(r))
        /\ \A k \in 1..(Len(fills) - 1) :
             IF aggressor_side = "Buy"
             THEN fills[k].price <= fills[k + 1].price
             ELSE fills[k].price >= fills[k + 1].price

\* C1: price-time priority.  In every submitOrder, each fill is taken from an
\* order of the opposite side such that every order resting at a strictly
\* better price, or earlier in the FIFO of the same price, was used up by an
\* earlier fill of the same call; and the fills are listed in that order
\* (prices non-decreasing for a Buy, non-increasing for a Sell).
C1_PriceTimePriority ==
    [][SubmitStep /\ last'.fills # << >> =>
         PriorityHolds(order_books[last'.order.symbol], last'.order.side,
                       last'.fills)]_vars

\* C1 witness: one submission filled against two orders of one level
C1_Witness ==
    /\ Submitted
    /\ Len(last.fills) = 2
    /\ last.fills[1].price = last.fills[2].price
    /\ last.fills[1].counter_order_id # last.fills[2].counter_order_id

\* C2: every fill's price is the price of the resting order it was matched
\* against, whatever the aggressor's type and limit.
C2_FillAtPassivePrice ==
    [][SubmitStep =>
         \A k \in 1..Len(last'.fills) :
           \E o \in RestingOn(order_books[last'.order.symbol],
                              Opposite(last'.order.side)) :
             /\ o.id = last'.fills[k].counter_order_id
             /\ o.price = last'.fills[k].price]_vars

\* C2 witness: a Limit order filled at a price better than its own limit
C2_Witness ==
    /\ Submitted
    /\ last.order.type = "Limit"
    /\ last.fills # << >>
    /\ last.fills[1].price # last.order.price
    /\ last.order.price > 0

\* C3: with a limit price above 0, no fill is made at a price worse than the
\* limit: matching stops at the first level beyond it.
C3_PriceGate ==
    Submitted /\ LimitPriceOf(last.order) > 0 =>
      \A k \in 1..Len(last.fills) :
        IF last.order.side = "Buy"
        THEN last.fills[k].price <= LimitPriceOf(last.order)
        ELSE last.fills[k].price >= LimitPriceOf(last.order)

\* C3 witness: a Buy with a limit was partly filled and stopped, quantity
\* remaining, at a best ask above its limit
C3_Witness ==
    /\ Submitted
    /\ last.order.side = "Buy"
    /\ last.order.type # "Market"
    /\ last.order.price > 0
    /\ last.fills # << >>
    /\ remaining_qty(last.result) > 0
    /\ getBestAsk(order_books[last.order.symbol])[1]
    /\ getBestAsk(order_books[last.order.symbol])[2] > last.order.price

\* C4: a price of 0 is a limit like any other: a Buy that is not a Market
\* order and carries price 0 is never filled at a price above 0.
C4_ZeroIsALimit ==
    Submitted /\ last.order.type # "Market" /\ last.order.price = 0
              /\ last.order.side = "Buy" =>
      \A k \in 1..Len(last.fills) : last.fills[k].price <= 0

\* C5: the book is never crossed: when both sides hold orders, the best bid
\* is below the best ask.
C5_NeverCrossed ==
    \A symbol \in DOMAIN order_books :
      getBestBid(order_books[symbol])[1] /\ getBestAsk(order_books[symbol])[1]
        => getBestBid(order_books[symbol])[2]
             < getBestAsk(order_books[symbol])[2]

\* C6: every resting order has remaining > 0 and status New or
\* PartiallyFilled.
C6_RestingOrdersLive ==
    \A symbol \in DOMAIN order_books :
      \A o \in Resting(order_books[symbol]) :
        remaining_qty(o) > 0 /\ o.status \in {"New", "PartiallyFilled"}

RECURSIVE SumRemaining(_)
SumRemaining(orders) ==
    IF orders = << >> THEN 0
    ELSE remaining_qty(Head(orders)) + SumRemaining(Tail(orders))

\* C7: every level's cached total_quantity is the sum of the remaining
\* quantities of the orders in its FIFO.
C7_LevelTotals ==
    \A symbol \in DOMAIN order_books :
      \A side \in Sides :
        \A p \in DOMAIN Levels(order_books[symbol], side) :
          LET level == Levels(order_books[symbol], side)[p]
          IN  level.total_quantity = SumRemaining(level.orders)

\* C7 witness: a quantity-only modify has just changed an order of a level
\* that holds two orders, one of them partly filled
C7_Witness ==
    /\ last.op = "modifyOrder" /\ last.ok
    /\ last.new_price = 0 /\ last.new_quantity > 0
    /\ \E side \in Sides :
         \E p \in DOMAIN Levels(order_books[last.symbol], side) :
           LET orders == Levels(order_books[last.symbol], side)[p].orders
           IN  /\ Len(orders) = 2
               /\ \E o \in Range(orders) : o.filled_qty > 0
               /\ \E o \in Range(orders) :
                    o.id = last.id /\ o.quantity = last.new_quantity

\* the number of orders held by the levels of a book
RestingCount(book) ==
    Cardinality(Slots(book.bid_levels)) + Cardinality(Slots(book.ask_levels))

\* the ID index of a book names exactly the resting orders, each once, at
\* the side and price of the level that holds it
IndexConsistent(book) ==
    /\ DOMAIN book.order_lookup = {o.id : o \in Resting(book)}
    /\ totalOrderCount(book) = RestingCount(book)
    /\ \A id \in DOMAIN book.order_lookup :
         LET loc == book.order_lookup[id]
         IN  /\ loc.price \in DOMAIN Levels(book, loc.side)
             /\ \E o \in Range(Levels(book, loc.side)[loc.price].orders) :
                  o.id = id

\* C8: the ID index holds exactly the ids of the resting orders, each with
\* the side and price of the level that holds the order, so that
\* totalOrderCount is the number of resting orders and getOrder finds nothing
\* for an order just cancelled or just filled completely.
C8_IndexConsistent ==
    /\ \A symbol \in DOMAIN order_books : IndexConsistent(order_books[symbol])
    /\ last.op = "cancelOrder" /\ last.ok =>
         ~getOrder(order_books[last.symbol], last.id)[1]
    /\ Submitted =>
         \A k \in 1..Len(last.fills) :
           LET found == getOrder(order_books[last.order.symbol],
                                 last.fills[k].counter_order_id)
           IN  found[1] => ~is_filled(found[2])

\* C8 witness: a fill has just used up a resting order, which left the
\* index, while another order is still indexed
C8_Witness ==
    /\ Submitted
    /\ last.fills # << >>
    /\ ~getOrder(order_books[last.order.symbol],
                 last.fills[1].counter_order_id)[1]
    /\ totalOrderCount(order_books[last.order.symbol]) > 0

\* C9: every fill has a quantity above 0.
C9_FillQuantityPositive ==
    Submitted => \A k \in 1..Len(last.fills) : last.fills[k].quantity > 0

\* the order's filled count after the call is its filled count at entry plus
\* the quantities of the fills returned
FilledBySum ==
    last.result.filled_qty = last.order.filled_qty + SumQty(last.fills)

\* C10 as stated: the fills of a submitOrder call sum to at most the order's
\* remaining quantity at entry, and the filled count grows by that sum.
C10_FillsWithinRemaining ==
    Submitted =>
      SumQty(last.fills) <= remaining_qty(last.order) /\ FilledBySum

\* C10 amended: for an order whose remaining quantity at entry is not
\* negative, the fills of the submitOrder call sum to at most that remaining
\* quantity; for every order the filled count grows by the sum of the fills.
C10_FillsWithinRemainingAmended ==
    Submitted =>
      /\ remaining_qty(last.order) >= 0 =>
           SumQty(last.fills) <= remaining_qty(last.order)
      /\ FilledBySum

\* C10 witness: an order that came in partly filled took the whole of its
\* remaining quantity, less than its quantity, from a resting order that had
\* more to give
C10_Witness ==
    /\ Submitted
    /\ last.order.filled_qty > 0
    /\ last.fills # << >>
    /\ SumQty(last.fills) = remaining_qty(last.order)
    /\ getOrder(order_books[last.order.symbol],
                last.fills[1].counter_order_id)[1]

\* an order submitOrder has to accept: valid, and its id not resting in the
\* book of its symbol
Accepted(books, order) ==
    /\ isValidOrder(order)
    /\ order.symbol \in DOMAIN books =>
         order.id \notin DOMAIN books[order.symbol].order_lookup

\* the order is the last one of the FIFO of the level at its price, on its side
AtTail(book, o) ==
    /\ o.price \in DOMAIN Levels(book, o.side)
    /\ LET orders == Levels(book, o.side)[o.price].orders
       IN  orders # << >> /\ orders[Len(orders)] = o

C13_FOKAllOrNothing ==
    Submitted /\ last.order.type = "FOK" =>
      \/ last.fills = << >>
      \/ SumQty(last.fills) = remaining_qty(last.order)

\* C15: submitOrder of an invalid order (quantity 0 or less, negative price,
\* or the id of an order resting in that book) notifies status Rejected,
\* returns no fills and leaves the book unchanged.
C15_InvalidRejected ==
    [][SubmitStep /\ ~Accepted(order_books, last'.order) =>
         /\ last'.result.status = "Rejected"
         /\ last'.fills = << >>
         /\ last'.order.symbol \in DOMAIN order_books =>
              order_books'[last'.order.symbol]
                = order_books[last'.order.symbol]]_vars

\* the steps of a cancelOrder and of a modifyOrder call
CancelStep == Idle /\ last'.op = "cancelOrder"

ModifyStep == Idle /\ last'.op = "modifyOrder"

\* the order with this id rests in the book of this symbol
IsResting(books, symbol, id) ==
    /\ symbol \in DOMAIN books
    /\ \E o \in Resting(books[symbol]) : o.id = id

\* the resting order with this id
RestingOrder(book, id) == CHOOSE o \in Resting(book) : o.id = id

\* the orders of a list but the one with this id, in the same order
Others(orders, id) ==
    LET Keep(o) == o.id # id IN SelectSeq(orders, Keep)

\* after is before with the order of this id (resting on this side at this
\* price) taken out: the other orders keep their levels and their order, and
\* the level is gone if it held no other order
TakenOut(before, after, id) ==
    LET o == RestingOrder(before, id)
        rest == Others(Levels(before, o.side)[o.price].orders, id)
    IN  /\ Levels(after, Opposite(o.side)) = Levels(before, Opposite(o.side))
        /\ DOMAIN Levels(after, o.side)
             = DOMAIN Levels(before, o.side)
                 \ (IF rest = << >> THEN {o.price} ELSE {})
        /\ \A p \in DOMAIN Levels(after, o.side) :
             IF p = o.price
             THEN /\ Levels(after, o.side)[p].orders = rest
                  /\ Levels(after, o.side)[p].total_quantity
                       = Levels(before, o.side)[p].total_quantity
                           - remaining_qty(o)
             ELSE Levels(after, o.side)[p] = Levels(before, o.side)[p]

\* C17: a quantity-only modify keeps time priority.  modifyOrder(A, 0 or A's
\* price, q) with q > 0 on a resting order A returns true, sets A.quantity = q,
\* leaves A's price and its place in the FIFO of its level unchanged, changes
\* the level total by q minus the old quantity, and changes nothing else.
C17_QuantityModifyKeepsPriority ==
    [][ModifyStep /\ IsResting(order_books, last'.symbol, last'.id)
         /\ last'.new_quantity > 0
         /\ last'.new_price
              \in {0, RestingOrder(order_books[last'.symbol], last'.id).price}
       =>
         LET before == order_books[last'.symbol]
             after == order_books'[last'.symbol]
             A == RestingOrder(before, last'.id)
             level == Levels(before, A.side)[A.price]
             i == CHOOSE i \in 1..Len(level.orders) : level.orders[i].id = A.id
         IN  /\ last'.ok
             /\ after =
                  SetLevels(before, A.side,
                    [Levels(before, A.side) EXCEPT ![A.price] =
                       [level EXCEPT
                          !.orders[i].quantity = last'.new_quantity,
                          !.total_quantity =
                             @ + last'.new_quantity - A.quantity]])]_vars

\* C17 witness: the first of two orders of a level has just been given a
\* quantity by a quantity-only modify and is still the first
C17_Witness ==
    /\ last.op = "modifyOrder" /\ last.ok
    /\ last.new_price = 0 /\ last.new_quantity > 0
    /\ \E side \in Sides :
         \E p \in DOMAIN Levels(order_books[last.symbol], side) :
           LET orders == Levels(order_books[last.symbol], side)[p].orders
           IN  /\ Len(orders) = 2
               /\ orders[1].id = last.id
               /\ orders[1].quantity = last.new_quantity
               /\ orders[2].quantity # last.new_quantity

\* C18: re-queue on price change.  After a successful modifyOrder(id,
\* new_price, q) of a resting order with new_price > 0 and different from the
\* order's price, the order is the last of the FIFO at new_price on its side,
\* behind the orders that were there, which keep their order; it is out of
\* its old level, and the old level is gone if that emptied it.
C18_RequeueOnPriceChange ==
    [][ModifyStep /\ last'.ok
         /\ IsResting(order_books, last'.symbol, last'.id)
         /\ last'.new_price > 0
         /\ last'.new_price
              # RestingOrder(order_books[last'.symbol], last'.id).price
       =>
         LET before == order_books[last'.symbol]
             after == order_books'[last'.symbol]
             A == RestingOrder(before, last'.id)
             moved == [A EXCEPT !.price = last'.new_price,
                                !.quantity = IF last'.new_quantity > 0
                                             THEN last'.new_quantity ELSE @]
             there == IF last'.new_price \in DOMAIN Levels(before, A.side)
                      THEN Levels(before, A.side)[last'.new_price].orders
                      ELSE << >>
             old == Others(Levels(before, A.side)[A.price].orders, A.id)
         IN  /\ AtTail(after, moved)
             /\ Levels(after, A.side)[last'.new_price].orders
                  = there \o <<moved>>
             /\ IF old = << >>
                THEN A.price \notin DOMAIN Levels(after, A.side)
                ELSE Levels(after, A.side)[A.price].orders = old
             /\ Levels(after, Opposite(A.side))
                  = Levels(before, Opposite(A.side))
             /\ getOrder(after, A.id) = <<TRUE, moved>>]_vars

\* C18 witness: a modify with new_quantity 0 has just moved an order, alone
\* at its price, behind the order of another level of its side
C18_Witness ==
    /\ last.op = "modifyOrder" /\ last.ok
    /\ last.new_price > 0 /\ last.new_quantity = 0
    /\ \E side \in Sides :
         /\ DOMAIN Levels(order_books[last.symbol], side) = {last.new_price}
         /\ LET orders ==
                  Levels(order_books[last.symbol], side)[last.new_price].orders
            IN  Len(orders) = 2 /\ orders[2].id = last.id

\* C19: cancelOrder of a resting id returns true and removes exactly that
\* order; cancelOrder of an id that is not resting, or of an unknown symbol,
\* returns false and leaves every book unchanged.
C19_CancelExact ==
    [][CancelStep =>
         IF IsResting(order_books, last'.symbol, last'.id)
         THEN /\ last'.ok
              /\ TakenOut(order_books[last'.symbol],
                          order_books'[last'.symbol], last'.id)
              /\ ~getOrder(order_books'[last'.symbol], last'.id)[1]
              /\ ~IsResting(order_books', last'.symbol, last'.id)
         ELSE ~last'.ok /\ order_books' = order_books]_vars

\* C19 witness: an order has just been cancelled and an order submitted
\* before it is the one order still resting
C19_Witness ==
    /\ last.op = "cancelOrder" /\ last.ok
    /\ RestingCount(order_books[last.symbol]) = 1
    /\ \E o \in Resting(order_books[last.symbol]) : o.id < last.id

\* the step of a submitOrder call the risk gate refuses
RejectStep == Idle /\ last'.op = "submitOrder" /\ last'.rejected

\* C14: risk rejection.  When checkOrder refuses a submitted order,
\* submitOrder returns no fills, the order callback is invoked once, with
\* status Rejected, no fill callback is invoked, every book is unchanged and
\* none is created, and positions and exposures are unchanged.
C14_RiskRejection ==
    [][RejectStep =>
         /\ last'.fills = << >>
         /\ last'.events =
              <<<<"notifyOrder", [last'.order EXCEPT !.status = "Rejected"]>>>>
         /\ order_books' = order_books
         /\ total_fills' = total_fills
         /\ risk_manager'.positions = risk_manager.positions
         /\ risk_manager'.notional_exposures
              = risk_manager.notional_exposures]_vars

\* C14 witness: an order has just been refused, for the position it would
\* build on top of the one already held, while an order rests in the book
C14_Witness ==
    /\ last.op = "submitOrder" /\ last.rejected
    /\ getPosition(risk_manager, last.order.symbol) # 0
    /\ RestingCount(order_books[last.order.symbol]) > 0

\* C16: modifyOrder(id, new_price, new_quantity) with 0 < new_quantity <
\* the filled count of the resting order returns false and leaves the book
\* unchanged, whether the price changes or not; a successful modify leaves
\* the order's filled count unchanged.
C16_ModifyBelowFilledRefused ==
    [][ModifyStep /\ IsResting(order_books, last'.symbol, last'.id) =>
         LET A == RestingOrder(order_books[last'.symbol], last'.id)
         IN  /\ 0 < last'.new_quantity /\ last'.new_quantity < A.filled_qty
                  => ~last'.ok /\ order_books' = order_books
             /\ last'.ok =>
                  /\ IsResting(order_books', last'.symbol, last'.id)
                  /\ RestingOrder(order_books'[last'.symbol],
                                  last'.id).filled_qty = A.filled_qty]_vars

\* the step of an addOrder call
AddStep == Idle /\ last'.op = "addOrder"

\* C20: addOrder returns true and appends the order at the tail of the FIFO
\* of the level at its price on its side, creating the level if it is absent,
\* iff remaining > 0, price >= 0 and the id is not resting in the book;
\* otherwise it returns false and the book is unchanged.
C20_AddOrderContract ==
    [][AddStep =>
         LET o == last'.order
             before == order_books[o.symbol]
             after == order_books'[o.symbol]
             there == IF o.price \in DOMAIN Levels(before, o.side)
                      THEN Levels(before, o.side)[o.price]
                      ELSE PriceLevel(o.price)
         IN  IF remaining_qty(o) > 0 /\ o.price >= 0
                /\ ~IsResting(order_books, o.symbol, o.id)
             THEN /\ last'.ok
                  /\ Levels(after, Opposite(o.side))
                       = Levels(before, Opposite(o.side))
                  /\ DOMAIN Levels(after, o.side)
                       = DOMAIN Levels(before, o.side) \cup {o.price}
                  /\ \A p \in DOMAIN Levels(before, o.side) \ {o.price} :
                       Levels(after, o.side)[p] = Levels(before, o.side)[p]
                  /\ Levels(after, o.side)[o.price] =
                       [price |-> o.price,
                        total_quantity |->
                           there.total_quantity + remaining_qty(o),
                        orders |-> Append(there.orders, o)]
                  /\ getOrder(after, o.id) = <<TRUE, o>>
                  /\ totalOrderCount(after) = totalOrderCount(before) + 1
             ELSE ~last'.ok /\ after = before]_vars

\* C20 witness: addOrder has just put an order at price 0 behind the order
\* already resting there
C20_Witness ==
    /\ last.op = "addOrder" /\ last.ok
    /\ last.order.price = 0
    /\ AtTail(order_books[last.order.symbol], last.order)
    /\ Len(Levels(order_books[last.order.symbol],
                   last.order.side)[0].orders) = 2

\* the step of a checkOrder call on the RiskManager
CheckStep == Idle /\ last'.op = "checkOrder"

\* what a map holds for a key, 0 when it holds nothing, and a limit set for a
\* symbol or else the default
Held(m, k) == IF k \in DOMAIN m THEN m[k] ELSE 0

LimitOr(m, k, default) == IF k \in DOMAIN m THEN m[k] ELSE default

Sign(side) == IF side = "Buy" THEN 1 ELSE -1

\* the position and the exposure the order would lead to
NewPosition(rm, o) == Held(rm.positions, o.symbol) + Sign(o.side) * o.quantity

NewExposure(rm, o) ==
    Held(rm.notional_exposures, o.symbol)
      + Sign(o.side) * o.price * o.quantity

\* the sum of |m[s]| over the symbols s of S
RECURSIVE SumAbs(_, _)
SumAbs(m, S) ==
    IF S = {} THEN 0
    ELSE LET k == CHOOSE k \in S : TRUE
         IN  Abs(Held(m, k)) + SumAbs(m, S \ {k})

\* C21: with the rate limit and the global limits unset, checkOrder accepts
\* an order iff its quantity is within the order-size limit, the position it
\* leads to within the position limit and the exposure it leads to within the
\* notional limit of its symbol, an unset limit being 10000, 100000 and
\* 10000000.
C21_PerSymbolLimits ==
    [][CheckStep /\ risk_manager.order_rate_limit = 0
         /\ risk_manager.global_position_limit = 0
         /\ risk_manager.global_notional_limit = 0 =>
         LET o == last'.order
         IN  last'.reason = "" <=>
               /\ o.quantity
                    <= LimitOr(risk_manager.order_size_limits, o.symbol, 10000)
               /\ Abs(NewPosition(risk_manager, o))
                    <= LimitOr(risk_manager.position_limits, o.symbol, 100000)
               /\ Abs(NewExposure(risk_manager, o))
                    <= LimitOr(risk_manager.notional_limits, o.symbol,
                               10000000)]_vars

\* C21 witness: with no limit set, an order of exactly the default order size
\* was accepted on top of a position held
C21_Witness ==
    /\ last.op = "checkOrder" /\ last.reason = ""
    /\ risk_manager.order_size_limits = EmptyMap
    /\ risk_manager.order_rate_limit = 0
    /\ last.order.quantity = 10000
    /\ Held(risk_manager.positions, last.order.symbol) > 0

\* the rate check refuses the call: the window counter, taken as 0 when the
\* window is a second old, has reached the limit
RateExhausted(rm, t) ==
    /\ rm.order_rate_limit > 0
    /\ (IF t - rm.rate_window_start >= 1 THEN 0 ELSE rm.orders_this_second)
         >= rm.order_rate_limit

\* C22: checkOrder makes the checks in the order rate, order size, position,
\* notional and reports the first that fails.
C22_CheckOrderSequence ==
    [][CheckStep =>
         LET o == last'.order
             rm == risk_manager
         IN  last'.reason =
               IF RateExhausted(rm, now) THEN "Order rate limit exceeded"
               ELSE IF checkOrderSizeLimit(rm, o) # ""
               THEN "Order size limit exceeded"
               ELSE IF checkPositionLimit(rm, o) # ""
               THEN checkPositionLimit(rm, o)
               ELSE checkNotionalLimit(rm, o)]_vars

\* C22 witness: an order beyond both its size limit and its position limit
\* was refused for its size
C22_Witness ==
    /\ last.op = "checkOrder"
    /\ last.reason = "Order size limit exceeded"
    /\ checkPositionLimit(risk_manager, last.order) # ""

\* C23: with a global position limit G > 0, an order that passes the rate,
\* size and per-symbol position checks is refused for the global position
\* limit iff |the position it leads to| plus the sum of |position| over the
\* other symbols exceeds G, also when its symbol has no position recorded.
C23_GlobalPositionLimit ==
    [][CheckStep /\ risk_manager.global_position_limit > 0
         /\ ~RateExhausted(risk_manager, now)
         /\ checkOrderSizeLimit(risk_manager, last'.order) = ""
         /\ Abs(NewPosition(risk_manager, last'.order))
              <= LimitOr(risk_manager.position_limits, last'.order.symbol,
                         100000) =>
         (last'.reason = "Global position limit exceeded" <=>
            Abs(NewPosition(risk_manager, last'.order))
              + SumAbs(risk_manager.positions,
                       RmSymbols \ {last'.order.symbol})
              > risk_manager.global_position_limit)]_vars

\* C24: the rate limit.  With limit L = 0 no call is refused for rate.  With
\* L > 0, a call made at least a second after window_start restarts the
\* window (counter 0, window_start now) before it is evaluated; a call is
\* refused for rate iff the counter has reached L, else it is counted; so
\* the calls counted in one window never exceed L.
C24_RateLimit ==
    [][CheckStep =>
         LET rm == risk_manager
             L == rm.order_rate_limit
             old == now - rm.rate_window_start >= 1
             c == IF old THEN 0 ELSE rm.orders_this_second
             refused == last'.reason = "Order rate limit exceeded"
         IN  /\ L = 0 => ~refused
             /\ L > 0 =>
                  /\ refused <=> c >= L
                  /\ risk_manager'.rate_window_start =
                       IF old THEN now ELSE rm.rate_window_start
                  /\ risk_manager'.orders_this_second =
                       IF refused THEN c ELSE c + 1
                  /\ risk_manager'.orders_this_second <= L]_vars

\* C24 witness: a call made a second after the window started, the window
\* full, was let through and counted as the first of a new window
C24_Witness ==
    /\ last.op = "checkOrder"
    /\ last.reason # "Order rate limit exceeded"
    /\ risk_manager.order_rate_limit = 1
    /\ now = 1
    /\ risk_manager.rate_window_start = 1
    /\ risk_manager.orders_this_second = 1

\* the step of a reset call
ResetStep == Idle /\ last'.op = "reset"

\* C26: reset sets every symbol's position and exposure to 0 and the window
\* counter to 0, restarting the window, and leaves every limit unchanged.
C26_Reset ==
    [][ResetStep =>
         /\ \A symbol \in RmSymbols :
              /\ getPosition(risk_manager', symbol) = 0
              /\ getNotionalExposure(risk_manager', symbol) = 0
         /\ risk_manager'.orders_this_second = 0
         /\ risk_manager'.rate_window_start = now
         /\ risk_manager'.position_limits = risk_manager.position_limits
         /\ risk_manager'.order_size_limits = risk_manager.order_size_limits
         /\ risk_manager'.notional_limits = risk_manager.notional_limits
         /\ risk_manager'.global_position_limit
              = risk_manager.global_position_limit
         /\ risk_manager'.global_notional_limit
              = risk_manager.global_notional_limit
         /\ risk_manager'.order_rate_limit
              = risk_manager.order_rate_limit]_vars

\* C26 witness: reset has just cleared positions on two symbols and a window
\* that had counted a call, a second after the window started
C26_Witness ==
    /\ last.op = "reset"
    /\ DOMAIN last.before.positions = RmSymbols
    /\ last.before.orders_this_second > 0
    /\ last.before.rate_window_start < now
    /\ risk_manager.rate_window_start = now

\* the quantity and the notional of a list of fills
RECURSIVE FillsQty(_)
FillsQty(fills) ==
    IF fills = << >> THEN 0
    ELSE Head(fills).quantity + FillsQty(Tail(fills))

RECURSIVE FillsNotional(_)
FillsNotional(fills) ==
    IF fills = << >> THEN 0
    ELSE Head(fills).price * Head(fills).quantity
           + FillsNotional(Tail(fills))

\* C25: an accepted submitOrder on symbol S with side d returning the fills
\* (p_i, q_i) changes position[S] by sign(d) * sum(q_i) and
\* notional_exposure[S] by sign(d) * sum(p_i * q_i) and no other symbol's
\* position or exposure; cancelOrder and modifyOrder change none.
C25_PositionAccounting ==
    [][/\ SubmitStep =>
            \A s \in MultiSymbols :
              /\ Held(risk_manager'.positions, s)
                   - Held(risk_manager.positions, s)
                   = IF s = last'.order.symbol
                     THEN Sign(last'.order.side) * FillsQty(last'.fills)
                     ELSE 0
              /\ Held(risk_manager'.notional_exposures, s)
                   - Held(risk_manager.notional_exposures, s)
                   = IF s = last'.order.symbol
                     THEN Sign(last'.order.side)
                            * FillsNotional(last'.fills)
                     ELSE 0
       /\ CancelStep \/ ModifyStep =>
            \A s \in MultiSymbols :
              /\ Held(risk_manager'.positions, s)
                   = Held(risk_manager.positions, s)
              /\ Held(risk_manager'.notional_exposures, s)
                   = Held(risk_manager.notional_exposures, s)]_vars

\* C25 witness: a sell was filled twice at two prices on one symbol while a
\* position is held on the other
C25_Witness ==
    /\ Submitted
    /\ last.order.side = "Sell"
    /\ Len(last.fills) = 2
    /\ last.fills[1].price # last.fills[2].price
    /\ Held(risk_manager.positions, last.order.symbol) = -2
    /\ \E s \in MultiSymbols \ {last.order.symbol} :
         Held(risk_manager.positions, s) # 0

\* what a step adds to the books: the symbol of an accepted submission
Created ==
    IF last'.op = "submitOrder" /\ ~last'.rejected
    THEN {last'.order.symbol} ELSE {}

\* C29: a book exists for a symbol iff a submitOrder for that symbol passed
\* the risk check earlier: there is none at the start, an accepted
\* submission adds the book of its symbol if it is not there, and no other
\* step (a refused submission, cancelOrder, modifyOrder) adds or removes a
\* book.
C29_BookExistence ==
    [][DOMAIN order_books' = DOMAIN order_books \cup Created]_vars

\* C29 witness: a submission was refused by the risk manager for a symbol
\* that has no book, while the other symbol has one
C29_Witness ==
    /\ last.op = "submitOrder" /\ last.rejected
    /\ last.order.symbol \notin DOMAIN order_books
    /\ DOMAIN order_books # {}

\* C27: an accepted submitOrder notifies each returned fill once, in the
\* order of the returned list, then updates the positions with these fills,
\* then notifies the order exactly once, in its final state, all before it
\* returns; a refused submission notifies the order, as Rejected, exactly
\* once and no fill.
C27_NotificationOrder ==
    [][/\ SubmitStep =>
            LET fills == last'.fills
                n == Len(fills)
                ev == last'.events
            IN  /\ Len(ev) = 2 * n + 1
                /\ \A i \in 1..n :
                     /\ ev[i][1] = "notifyFill" /\ ev[i][2] = fills[i]
                     /\ ev[n + i][1] = "updatePosition"
                     /\ ev[n + i][2] = fills[i]
                /\ ev[2 * n + 1][1] = "notifyOrder"
                /\ ev[2 * n + 1][2] = last'.result
       /\ RejectStep =>
            /\ Len(last'.events) = 1
            /\ last'.events[1][1] = "notifyOrder"
            /\ last'.events[1][2].id = last'.order.id
            /\ last'.events[1][2].status = "Rejected"]_vars

\* C27 witness: a submission that was filled twice, to completion,
\* made five steps: two fill notifications, two position updates, the
\* order notification
C27_Witness ==
    /\ Submitted
    /\ HasRisk(risk_manager)
    /\ Len(last.fills) = 2
    /\ Len(last.events) = 5
    /\ last.events[5][2].status = "Filled"

\* the step of a submitOrder call, accepted or refused
AnySubmitStep == Idle /\ last'.op = "submitOrder"

\* C28: totalOrdersProcessed counts the submitOrder calls, the refused ones
\* included, and totalFillsGenerated the fills they returned: both are 0 at
\* the start, a submitOrder call adds 1 to the first and the number of
\* fills it returns to the second, and no other call changes either; so
\* neither ever decreases.
C28_Statistics ==
    [][/\ AnySubmitStep =>
            /\ total_orders' = total_orders + 1
            /\ total_fills' = total_fills + Len(last'.fills)
       /\ ~AnySubmitStep =>
            /\ total_orders' = total_orders
            /\ total_fills' = total_fills
       /\ total_orders' >= total_orders
       /\ total_fills' >= total_fills]_vars

\* C28 witness: a refused submission was counted as the third order, after
\* a fill had been counted
C28_Witness ==
    /\ last.op = "submitOrder" /\ last.rejected
    /\ total_orders = 3
    /\ total_fills = 1

\* the smaller of two numbers
Min(a, b) == IF a <= b THEN a ELSE b

\* a depth snapshot of a level map: the number of levels asked for or all
\* there are, each as the book keeps it and its total the sum of what
\* remains of its orders, the first the best, the prices going strictly
\* down (bids) or up (asks)
IsSnapshot(result, map, n, best, down) ==
    /\ Len(result) = Min(n, Cardinality(DOMAIN map))
    /\ \A i \in 1..Len(result) :
         /\ result[i].price \in DOMAIN map
         /\ result[i] = map[result[i].price]
         /\ result[i].orders # << >>
         /\ result[i].total_quantity = SumRemaining(result[i].orders)
    /\ Len(result) > 0 => best[1] /\ result[1].price = best[2]
    /\ \A i \in 1..(Len(result) - 1) :
         /\ IF down THEN result[i].price > result[i + 1].price
            ELSE result[i].price < result[i + 1].price
         /\ \A p \in DOMAIN map :
              ~(IF down
                THEN result[i].price > p /\ p > result[i + 1].price
                ELSE result[i].price < p /\ p < result[i + 1].price)

\* C30: getBidLevels(n) returns exactly min(n, number of bid levels) levels
\* in strictly descending price order from the best bid, getAskLevels(n) the
\* same in strictly ascending order from the best ask; each level returned
\* lists its orders in the order the book keeps them (FIFO) with
\* total_quantity the sum of their remaining quantities.
C30_DepthSnapshot ==
    [][/\ Idle /\ last'.op = "getBidLevels" =>
            IsSnapshot(last'.result, order_books["AAPL"].bid_levels,
                       last'.levels, getBestBid(order_books["AAPL"]), TRUE)
       /\ Idle /\ last'.op = "getAskLevels" =>
            IsSnapshot(last'.result, order_books["AAPL"].ask_levels,
                       last'.levels, getBestAsk(order_books["AAPL"]),
                       FALSE)]_vars

\* C30 witness: one bid level was asked for of a book with two, and the
\* level returned holds an order partly filled
C30_Witness ==
    /\ last.op = "getBidLevels"
    /\ last.levels = 1
    /\ Len(last.result) = 1
    /\ Cardinality(DOMAIN order_books["AAPL"].bid_levels) = 2
    /\ \E i \in 1..Len(last.result[1].orders) :
         last.result[1].orders[i].filled_qty > 0

\* the prices at which an order rests on one side of a book
RestingPrices(book, side) == {o.price : o \in RestingOn(book, side)}

\* what the best-price query of a side is to return: nothing iff no order
\* rests on the side, else the best price an order rests at with the total
\* of the level of that price
BestIs(book, side, best) ==
    LET prices == RestingPrices(book, side)
    IN  IF prices = {} THEN ~best[1]
        ELSE LET p == CHOOSE p \in prices :
                        \A q \in prices :
                          IF side = "Buy" THEN q <= p ELSE p <= q
             IN  /\ best[1]
                 /\ best[2] = p
                 /\ p \in DOMAIN Levels(book, side)
                 /\ best[3] = Levels(book, side)[p].total_quantity

\* C31: no empty level is visible.  In every state each level of the book
\* holds at least one order; getBestBid / getBestAsk return the highest bid
\* / lowest ask price at which an order rests with that level's total, and
\* nothing iff no order rests on the side; getSpread (ask price - bid
\* price) and getMidPrice have a value iff both sides hold an order.
C31_NoEmptyLevel ==
    \A symbol \in DOMAIN order_books :
      LET book == order_books[symbol]
          both == RestingOn(book, "Buy") # {} /\ RestingOn(book, "Sell") # {}
      IN  /\ \A side \in Sides :
               \A p \in DOMAIN Levels(book, side) :
                 Levels(book, side)[p].orders # << >>
          /\ BestIs(book, "Buy", getBestBid(book))
          /\ BestIs(book, "Sell", getBestAsk(book))
          /\ getSpread(book)[1] <=> both
          /\ getMidPrice(book)[1] <=> both
          /\ both =>
               /\ getSpread(book)[2]
                    = getBestAsk(book)[2] - getBestBid(book)[2]
               /\ getMidPrice(book)[2]
                    = getBestAsk(book)[2] + getBestBid(book)[2]

\* C31 witness: executeFill has just used up the orders of the best bid
\* level while a lower bid level and an ask remain: the level is gone, the
\* best bid is the lower level and the spread has a value
C31_Witness ==
    /\ last.op = "executeFill" /\ last.side = "Sell"
    /\ last.fills # << >>
    /\ last.fills[1].price \notin DOMAIN order_books["AAPL"].bid_levels
    /\ getBestBid(order_books["AAPL"])[1]
    /\ getBestBid(order_books["AAPL"])[2] < last.fills[1].price

\* C32: checkOrder does not change the accounting: whether it accepts or
\* refuses, every symbol's position and notional exposure and every limit
\* are after the call what they were before; only the window counter and
\* window_start may change.
C32_CheckOrderFrame ==
    [][CheckStep =>
         /\ \A symbol \in RmSymbols :
              /\ Held(risk_manager'.positions, symbol)
                   = Held(risk_manager.positions, symbol)
              /\ Held(risk_manager'.notional_exposures, symbol)
                   = Held(risk_manager.notional_exposures, symbol)
         /\ risk_manager'.position_limits = risk_manager.position_limits
         /\ risk_manager'.order_size_limits = risk_manager.order_size_limits
         /\ risk_manager'.notional_limits = risk_manager.notional_limits
         /\ risk_manager'.global_position_limit
              = risk_manager.global_position_limit
         /\ risk_manager'.global_notional_limit
              = risk_manager.global_notional_limit
         /\ risk_manager'.order_rate_limit
              = risk_manager.order_rate_limit]_vars

\* C32 witness: an order was accepted and counted in the window by a risk
\* manager that holds positions on two symbols
C32_Witness ==
    /\ last.op = "checkOrder" /\ last.reason = ""
    /\ risk_manager.orders_this_second > 0
    /\ \A symbol \in RmSymbols : Held(risk_manager.positions, symbol) # 0

\* C33: the window counter is incremented by a checkOrder call only when the
\* order passes all the checks: a call refused by the order-size, position
\* or notional check leaves the counter of the current window as it was.
C33_RateCounterOnlyOnPass ==
    [][CheckStep /\ last'.reason # ""
         /\ last'.reason # "Order rate limit exceeded" =>
         risk_manager'.orders_this_second =
           IF risk_manager.order_rate_limit > 0
              /\ now - risk_manager.rate_window_start >= 1
           THEN 0 ELSE risk_manager.orders_this_second]_vars

\* the step of a submitOrder, cancelOrder or modifyOrder call, and the symbol
\* the call is for
EngineStep ==
    Idle /\ last'.op \in {"submitOrder", "cancelOrder", "modifyOrder"}

StepSymbol ==
    IF last'.op = "submitOrder" THEN last'.order.symbol ELSE last'.symbol

\* C34: symbol isolation.  A submitOrder, cancelOrder or modifyOrder for
\* symbol S leaves the book of every other symbol as it was (levels, FIFO
\* contents, totals, ID index), creating and removing none, and each fill
\* produced for S is against an order that rested on the opposite side of
\* S's book.
C34_SymbolIsolation ==
    [][EngineStep =>
         /\ \A symbol \in MultiSymbols \ {StepSymbol} :
              /\ symbol \in DOMAIN order_books'
                   <=> symbol \in DOMAIN order_books
              /\ symbol \in DOMAIN order_books =>
                   order_books'[symbol] = order_books[symbol]
         /\ last'.op = "submitOrder" =>
              \A k \in 1..Len(last'.fills) :
                /\ last'.fills[k].symbol = StepSymbol
                /\ StepSymbol \in DOMAIN order_books
                /\ \E o \in RestingOn(order_books[StepSymbol],
                                      Opposite(last'.order.side)) :
                     /\ o.id = last'.fills[k].counter_order_id
                     /\ o.symbol = StepSymbol
                     /\ o.price = last'.fills[k].price]_vars

\* C34 witness: an order was filled against a resting order of its symbol
\* while an order of the same id rests in the other symbol's book
C34_Witness ==
    /\ Submitted
    /\ last.fills # << >>
    /\ \E symbol \in DOMAIN order_books \ {last.order.symbol} :
         \E o \in Resting(order_books[symbol]) :
           o.id = last.fills[1].counter_order_id

\* C36: with a risk manager installed and its limits left as they were, in
\* every state reached by submitOrder, cancelOrder and modifyOrder calls
\* |position(symbol)| <= position limit(symbol) for every symbol.
C36_PositionWithinLimit ==
    HasRisk(risk_manager) =>
      \A symbol \in MultiSymbols :
        Abs(Held(risk_manager.positions, symbol))
          <= LimitOr(risk_manager.position_limits, symbol, 100000)

\* C37: a failed modify changes nothing: whenever modifyOrder returns false
\* the book is after the call exactly what it was before; the order aimed
\* at, if it was resting, still rests at its price, place in the FIFO and
\* quantity.
C37_FailedModifyNoChange ==
    [][ModifyStep /\ ~last'.ok => order_books' = order_books]_vars

\* the step of an executeFill call on the book
ExecStep == Idle /\ last'.op = "executeFill"

\* every pass of the inner loop, from state st on, either leaves the
\* aggressor with nothing remaining or removes the head order of the level
RECURSIVE InnerProgress(_, _)
InnerProgress(st, aggressor_side) ==
    IF ~(st.remaining > 0 /\ st.level.orders # << >>) THEN TRUE
    ELSE LET st2 == MatchOne(st, "AAPL", aggressor_side, 0)
         IN  /\ \/ st2.remaining = 0
                \/ st2.level.orders = Tail(st.level.orders)
             /\ InnerProgress(st2, aggressor_side)

\* every pass of the outer loop, from the book on, either stops at the price
\* gate or removes a level or, if exhausted is allowed, leaves the aggressor
\* with nothing remaining; and every pass of its inner loop makes progress
RECURSIVE OuterProgress(_, _, _, _, _)
OuterProgress(book, aggressor_side, remaining, limit_price, exhausted) ==
    LET opp == Opposite(aggressor_side)
        levels == Levels(book, opp)
    IN  IF ~(remaining > 0 /\ DOMAIN levels # {}) THEN TRUE
        ELSE
          LET p == BestOpposite(book, aggressor_side)
              st == [level |-> levels[p], lookup |-> book.order_lookup,
                     side_orders |-> SideOrders(book, opp),
                     remaining |-> remaining, fills |-> << >>]
              st2 == MatchLevel(st, "AAPL", aggressor_side, 0)
              book2 == AfterLevel(book, opp, p, st2)
          IN  \/ PriceLimitHit(aggressor_side, levels[p].price, limit_price)
              \/ /\ InnerProgress(st, aggressor_side)
                 /\ \/ DOMAIN Levels(book2, opp) = DOMAIN levels \ {p}
                    \/ exhausted /\ st2.remaining = 0
                 /\ OuterProgress(book2, aggressor_side, st2.remaining,
                                  limit_price, exhausted)

\* C35 as stated: matching terminates because each pass of the inner loop
\* either drives the aggressor's remaining quantity to 0 or removes the head
\* order of the best level, and each pass of the outer loop either stops at
\* the price gate or removes a level.
C35_OuterPassRemovesLevel ==
    [][ExecStep =>
         OuterProgress(order_books["AAPL"], last'.side, last'.quantity,
                       last'.limit_price, FALSE)]_vars

\* C35: matching terminates.  From every book state, those reached by
\* modifyOrder on partly filled orders included, an executeFill call
\* completes after at most as many passes of the inner loop as orders rest
\* on the opposite side: each pass of the inner loop either drives the
\* aggressor's remaining quantity to 0 or removes the head order of the best
\* level, and each pass of the outer loop either stops at the price gate,
\* removes a level, or leaves the aggressor with nothing remaining.
C35_MatchingTerminates ==
    [][ExecStep =>
         /\ Len(last'.fills)
              <= Cardinality(Slots(Levels(order_books["AAPL"],
                                          Opposite(last'.side))))
         /\ OuterProgress(order_books["AAPL"], last'.side, last'.quantity,
                          last'.limit_price, TRUE)]_vars

\* C35 witness: executeFill has completed on a level whose head order had
\* less than nothing remaining, after a modify of the partly filled order:
\* the fill has a negative quantity
C35_Witness ==
    /\ last.op = "executeFill"
    /\ last.fills # << >>
    /\ last.fills[1].quantity < 0

====
